---- MODULE Spec2Model ----
(***************************************************************************)
(* NTRIP caster of src/main.go: the NtripServer object after Start() has   *)
(* returned.  Four kinds of goroutine share the map s.clients without any  *)
(* lock: readSerialData (the broadcast task), acceptConnections (the       *)
(* accept task), one handleClient per accepted connection, and the caller  *)
(* of Stop.  Every access to shared state is a step of its own; a          *)
(* statement that touches nothing another goroutine can see (an error      *)
(* return, a log line) is part of the step before or after it.             *)
(*                                                                         *)
(* s.clients is a Go map used from several goroutines with no              *)
(* synchronisation.  When a goroutine executes a map access while another  *)
(* goroutine stands at a map write (its next statement is the write, and   *)
(* nothing orders the two), the accesses can overlap in time: a data race. *)
(* Its outcomes are those the Go runtime produces: the access behaves as   *)
(* if the two were ordered; or the runtime detects the overlap and throws  *)
(* the fatal error "concurrent map writes" / "concurrent map iteration     *)
(* and map write" (the process dies); or, undetected, the result is        *)
(* inconsistent: an update is lost, an iteration ends early.               *)
(*                                                                         *)
(* Spec and FairSpec are the caster against arbitrary peers; ClientSpec is *)
(* the client program (NtripClient.Connect) against an arbitrary peer;     *)
(* E2ESpec and FairE2ESpec are the caster and its clients together;        *)
(* PanelSpec is the control panel of src/web.go.                           *)
(***************************************************************************)
EXTENDS Integers, Sequences, FiniteSets, TLC

\* Bounds of the model.
MaxConns == 2    \* connections the listener hands out
MaxChunks == 2   \* chunks the serial device delivers
MaxWire == 3     \* successful writes recorded per connection
MaxStarts == 2   \* calls of startClient (control panel)
MaxStops == 2    \* calls of stopClient (control panel)

Conns == 1..MaxConns

\* main.go:147  header := "ICY 200 OK\r\n"
header == "ICY 200 OK\r\n"

\* What the serial device delivers, chunk by chunk (opaque bytes).
Payload == <<"AB", "CD", "EF", "GH">>

VARIABLES
    listener,    \* s.listener: "open" | "closed"
    serial,      \* s.serial:   "open" | "closed"
    clients,     \* keys of the map s.clients
    conn,        \* per connection: "new" (not yet accepted) | "open" | "closed"
    wire,        \* per connection: what conn.Write has put on the socket, in order
    crashed,     \* the runtime threw a fatal error: the process is gone
    \* acceptConnections
    apc,         \* "accept" | "accepterr" | "register"
    aconn,       \* the conn Accept returned (0 once it is handed to handleClient)
    nextConn,    \* next connection the listener will hand out
    \* handleClient(c)
    hpc,         \* "none" | "greet" | "read" | "delete" | "done"
    \* readSerialData
    bpc,         \* "read" | "readerr" | "next" | "write" | "delete"
    buf,         \* data := buf[:n], the chunk of the current round ("" before the first read)
    nsrc,        \* chunks read from the device so far
    bcur,        \* conn of the current iteration of the range loop (0 outside the loop body)
    bstart,      \* keys in the map when the range loop started
    bvisited,    \* keys the range loop has produced
    \* Stop
    spc,         \* "idle" | "serial" | "range" | "next" | "done"
    sstart,
    svisited,
    \* history (observers of the run; no step reads them)
    srcFailed,   \* s.serial.Read has returned an error
    readAfterFail, \* s.serial.Read was called again after it had returned an error
    bfailed,     \* conns whose relay write failed in the current round
    wfailed,     \* conns the broadcast task has closed and deleted after a failed relay write
    lateWrite    \* conns that took a relay chunk after their delete had returned

\* The client program of src/main.go (NtripClient), one per connection.
VARIABLES
    cfg,         \* the NtripClient: [username, password, mountpoint]
    cpc,         \* Connect: "idle" | "response" | "relay" | "done" | "panic"
    csock,       \* the client's conn: "none" | "open" | "closed"
    creq,        \* the request Connect has written on conn (<<>>: none yet)
    inbox,       \* bytes that have arrived on conn and no Read has returned yet
    rxEnd,       \* the incoming stream: "open" | "eof" (peer closed) | "reset"
    file,        \* c.outputFile: the bytes written to it, in order
    out,         \* os.Stdout: the bytes written to it, in order
    cres,        \* what Connect returned: "none" (still running) | "nil" | an error
    \* history
    got,         \* every byte conn.Read has returned, in order
    lastRead,    \* outcome of the last conn.Read: "none" | "data" | "EOF" | "error"
    wrErr        \* writes that have returned an error: subset of {"file", "stdout"}

cvars == <<cfg, cpc, csock, creq, inbox, rxEnd, file, out, cres, got, lastRead, wrErr>>

\* The control panel of src/web.go (package-level variables).
VARIABLES
    mutex,       \* sync.Mutex: 0 (unlocked) or the task that holds it
    clientCmd,   \* 0 (nil) or the exec.Cmd it points to
    clientConfig, \* [Username]
    pageData,    \* [Status, IsRunning, Messages]
    tpc,         \* per task (a call of startClient or stopClient): where it is
    cmdStdout,   \* exec.Cmds whose Stdout is set (StdoutPipe has succeeded)
    cmdStarted,  \* exec.Cmds whose Start has succeeded (Process is not nil)
    alive,       \* subprocesses that run
    panicked     \* the control panel died of a panic in a goroutine

pvars == <<mutex, clientCmd, clientConfig, pageData, tpc, cmdStdout, cmdStarted,
           alive, panicked>>

vars == <<listener, serial, clients, conn, wire, crashed, apc, aconn, nextConn,
          hpc, bpc, buf, nsrc, bcur, bstart, bvisited, spc, sstart,
          svisited, srcFailed, readAfterFail, bfailed, wfailed, lateWrite,
          cfg, cpc, csock, creq, inbox, rxEnd, file, out, cres, got, lastRead,
          wrErr, mutex, clientCmd, clientConfig, pageData, tpc, cmdStdout,
          cmdStarted, alive, panicked>>

shared == <<listener, serial, clients, conn, wire, crashed>>
avars == <<apc, aconn, nextConn>>
bvars == <<bpc, buf, nsrc, bcur, bstart, bvisited>>
svars == <<spc, sstart, svisited>>
hist == <<srcFailed, readAfterFail, bfailed, wfailed, lateWrite>>

\* NewNtripClient(serverAddr, mountpoint, username, password, outputFile),
\* Connect not called yet.
NewNtripClient(username, password, mountpoint) ==
    [username |-> username, password |-> password, mountpoint |-> mountpoint]

\* No client program runs: the peers of the server are arbitrary.
NoClient ==
    /\ cfg = [k \in Conns |-> NewNtripClient("", "", "RTCM3")]
    /\ cpc = [k \in Conns |-> "idle"]
    /\ csock = [k \in Conns |-> "none"]
    /\ creq = [k \in Conns |-> <<>>]
    /\ inbox = [k \in Conns |-> <<>>]
    /\ rxEnd = [k \in Conns |-> "open"]
    /\ file = [k \in Conns |-> <<>>]
    /\ out = [k \in Conns |-> <<>>]
    /\ cres = [k \in Conns |-> "none"]
    /\ got = [k \in Conns |-> <<>>]
    /\ lastRead = [k \in Conns |-> "none"]
    /\ wrErr = [k \in Conns |-> {}]

\* NewNtripServer + Start: serial port and listener open, the map empty,
\* readSerialData and acceptConnections started.
NewNtripServer ==
    /\ listener = "open"
    /\ serial = "open"
    /\ clients = {}
    /\ conn = [c \in Conns |-> "new"]
    /\ wire = [c \in Conns |-> <<>>]
    /\ crashed = FALSE
    /\ apc = "accept"
    /\ aconn = 0
    /\ nextConn = 1
    /\ hpc = [c \in Conns |-> "none"]
    /\ bpc = "read"
    /\ buf = ""
    /\ nsrc = 0
    /\ bcur = 0
    /\ bstart = {}
    /\ bvisited = {}
    /\ spc = "idle"
    /\ sstart = {}
    /\ svisited = {}
    /\ srcFailed = FALSE
    /\ readAfterFail = FALSE
    /\ bfailed = {}
    /\ wfailed = {}
    /\ lateWrite = {}

\* The calls of startClient (each in a goroutine of its own, web.go:177)
\* and of stopClient (each in the goroutine of its HTTP request).
Starters == 1..MaxStarts
Stoppers == (MaxStarts + 1)..(MaxStarts + MaxStops)
Tasks == Starters \cup Stoppers

\* web.go main: the control panel with the given form value for the
\* username, before any start or stop request.
PanelStarted(username) ==
    /\ mutex = 0
    /\ clientCmd = 0
    /\ clientConfig = [Username |-> username]
    /\ pageData = [Status |-> "Not running", IsRunning |-> FALSE, Messages |-> <<>>]
    /\ tpc = [t \in Tasks |-> "idle"]
    /\ cmdStdout = {}
    /\ cmdStarted = {}
    /\ alive = {}
    /\ panicked = FALSE

\* No control panel request is made.
NoPanel == PanelStarted("")

Init == NewNtripServer /\ NoClient /\ NoPanel

(***************************************************************************)
(* The map s.clients.                                                      *)
(***************************************************************************)

\* Keys of the map writes (s.clients[conn] = true, delete(s.clients, conn))
\* that goroutines stand at, per writer.
Inserting == IF apc = "register" THEN {aconn} ELSE {}
HDeleting == {c \in Conns : hpc[c] = "delete"}
BDeleting == IF bpc = "delete" THEN {bcur} ELSE {}

\* Keys being written by goroutines other than the one named.
OtherWritersA == HDeleting \cup BDeleting
OtherWritersB == Inserting \cup HDeleting
OtherWritersH(c) == Inserting \cup BDeleting \cup (HDeleting \ {c})
OtherWritersS == Inserting \cup HDeleting \cup BDeleting

\* The map after a write that would leave it as `result`, given the keys
\* other goroutines are writing.  Alone: the write takes effect.
\* Overlapping another write: it takes effect, or is lost, or the runtime
\* throws "concurrent map writes" (the statement does not complete).
MapWrite(result, others) ==
    IF others = {}
    THEN {<<"ok", result>>}
    ELSE {<<"ok", result>>, <<"ok", clients>>, <<"fatal", clients>>}

\* One step of `for conn := range s.clients`.  Alone (Go's specification of
\* range over a map): every key present at the start and not deleted is
\* produced once; a key inserted during the loop may be produced or not; a
\* deleted key not yet reached is not produced.  Overlapping a write: also
\* an early end, or the fatal error "concurrent map iteration and map
\* write".
MapIterNext(visited, start, others) ==
    LET alone == {<<"key", c>> : c \in clients \ visited}
                 \cup (IF (clients \cap start) \subseteq visited
                       THEN {<<"done", 0>>} ELSE {})
        torn == {<<"done", 0>>, <<"fatal", 0>>}
    IN IF others = {} THEN alone ELSE alone \cup torn

\* Conns whose delete(s.clients, conn) has returned, in handleClient's
\* deferred function or in readSerialData.
removed == {c \in Conns : hpc[c] = "done"} \cup wfailed

\* conn.Write on the server side: fails on a connection this process has
\* closed; on an open one it may fail too (peer reset, broken pipe).
WriteOutcomes(c) ==
    IF conn[c] = "open" /\ Len(wire[c]) < MaxWire
    THEN {TRUE, FALSE} ELSE {FALSE}

(***************************************************************************)
(* acceptConnections, main.go:127-138                                      *)
(***************************************************************************)

\* s.listener.Accept(): a client connects, or the listener is closed.
Accept ==
    /\ ~crashed /\ apc = "accept"
    /\ \/ /\ listener = "open" /\ nextConn <= MaxConns
          /\ conn' = [conn EXCEPT ![nextConn] = "open"]
          /\ aconn' = nextConn
          /\ nextConn' = nextConn + 1
          /\ apc' = "register"
       \/ /\ listener = "closed"
          /\ apc' = "accepterr"
          /\ UNCHANGED <<conn, aconn, nextConn>>
    /\ UNCHANGED <<listener, serial, clients, wire, crashed, hpc>>
    /\ UNCHANGED <<bvars, svars, hist>>
    /\ UNCHANGED cvars
    /\ UNCHANGED pvars

\* log.Printf("Error accepting connection"); continue
AcceptErr ==
    /\ ~crashed /\ apc = "accepterr"
    /\ apc' = "accept"
    /\ UNCHANGED <<shared, aconn, nextConn, hpc, bvars, svars, hist>>
    /\ UNCHANGED cvars
    /\ UNCHANGED pvars

\* s.clients[conn] = true; go s.handleClient(conn)
Register ==
    /\ ~crashed /\ apc = "register"
    /\ \E o \in MapWrite(clients \cup {aconn}, OtherWritersA) :
          \/ /\ o[1] = "ok"
             /\ clients' = o[2]
             /\ hpc' = [hpc EXCEPT ![aconn] = "greet"]
             /\ apc' = "accept"
             /\ aconn' = 0
             /\ UNCHANGED crashed
          \/ /\ o[1] = "fatal"
             /\ crashed' = TRUE
             /\ UNCHANGED <<clients, hpc, apc, aconn>>
    /\ UNCHANGED <<listener, serial, conn, wire, nextConn>>
    /\ UNCHANGED <<bvars, svars, hist>>
    /\ UNCHANGED cvars
    /\ UNCHANGED pvars

acceptConnections == Accept \/ AcceptErr \/ Register

(***************************************************************************)
(* handleClient, main.go:140-164                                           *)
(***************************************************************************)

\* conn.Write([]byte(header)); on an error return, and the deferred
\* conn.Close() runs
Greet(c) ==
    /\ ~crashed /\ hpc[c] = "greet"
    /\ \E ok \in WriteOutcomes(c) :
          /\ wire' = IF ok THEN [wire EXCEPT ![c] = Append(@, header)] ELSE wire
          /\ conn' = IF ok THEN conn ELSE [conn EXCEPT ![c] = "closed"]
          /\ hpc' = [hpc EXCEPT ![c] = IF ok THEN "read" ELSE "delete"]
    /\ UNCHANGED <<listener, serial, clients, crashed>>
    /\ UNCHANGED <<avars, bvars, svars, hist>>
    /\ UNCHANGED cvars
    /\ UNCHANGED pvars

\* conn.Read(buf) returns an error (the peer disconnected, or the connection
\* was closed by this process): return, and the deferred conn.Close() runs.
\* (A read that returns a byte loops.)
ReadErr(c) ==
    /\ ~crashed /\ hpc[c] = "read"
    /\ conn' = [conn EXCEPT ![c] = "closed"]
    /\ hpc' = [hpc EXCEPT ![c] = "delete"]
    /\ UNCHANGED <<listener, serial, clients, wire, crashed>>
    /\ UNCHANGED <<avars, bvars, svars, hist>>
    /\ UNCHANGED cvars
    /\ UNCHANGED pvars

\* deferred: delete(s.clients, conn); handleClient returns
HDelete(c) ==
    /\ ~crashed /\ hpc[c] = "delete"
    /\ \E o \in MapWrite(clients \ {c}, OtherWritersH(c)) :
          \/ /\ o[1] = "ok"
             /\ clients' = o[2]
             /\ hpc' = [hpc EXCEPT ![c] = "done"]
             /\ UNCHANGED crashed
          \/ /\ o[1] = "fatal"
             /\ crashed' = TRUE
             /\ UNCHANGED <<clients, hpc>>
    /\ UNCHANGED <<listener, serial, conn, wire>>
    /\ UNCHANGED <<avars, bvars, svars, hist>>
    /\ UNCHANGED cvars
    /\ UNCHANGED pvars

handleClient(c) == Greet(c) \/ ReadErr(c) \/ HDelete(c)

(***************************************************************************)
(* readSerialData, main.go:105-125                                         *)
(***************************************************************************)

\* n, err := s.serial.Read(buf): an error (always, once the port is closed;
\* a device error otherwise), or the next chunk, and then
\* data := buf[:n]; for conn := range s.clients creates the iterator.
SerialRead ==
    /\ ~crashed /\ bpc = "read"
    /\ \/ /\ serial = "open" /\ nsrc < MaxChunks
          /\ nsrc' = nsrc + 1
          /\ buf' = Payload[nsrc + 1]
          /\ bstart' = clients
          /\ bvisited' = {}
          /\ bfailed' = {}
          /\ bpc' = "next"
          /\ UNCHANGED srcFailed
       \/ /\ bpc' = "readerr"
          /\ srcFailed' = TRUE
          /\ UNCHANGED <<nsrc, buf, bstart, bvisited, bfailed>>
    /\ readAfterFail' = (readAfterFail \/ srcFailed)
    /\ UNCHANGED <<shared, avars, hpc, bcur, svars>>
    /\ UNCHANGED <<wfailed, lateWrite>>
    /\ UNCHANGED cvars
    /\ UNCHANGED pvars

\* log.Printf("Error reading from serial port"); continue
SerialReadErr ==
    /\ ~crashed /\ bpc = "readerr"
    /\ bpc' = "read"
    /\ UNCHANGED <<shared, avars, hpc, buf, nsrc, bcur, bstart, bvisited, svars, hist>>
    /\ UNCHANGED cvars
    /\ UNCHANGED pvars

\* for conn := range s.clients: the next key, or the end of the loop
BNext ==
    /\ ~crashed /\ bpc = "next"
    /\ \E o \in MapIterNext(bvisited, bstart, OtherWritersB) :
          \/ /\ o[1] = "key"
             /\ bcur' = o[2]
             /\ bvisited' = bvisited \cup {o[2]}
             /\ bpc' = "write"
             /\ UNCHANGED crashed
          \/ /\ o[1] = "done"
             /\ bpc' = "read"
             /\ UNCHANGED <<bcur, bvisited, crashed>>
          \/ /\ o[1] = "fatal"
             /\ crashed' = TRUE
             /\ UNCHANGED <<bcur, bvisited, bpc>>
    /\ UNCHANGED <<listener, serial, clients, conn, wire>>
    /\ UNCHANGED <<avars, hpc, buf, nsrc, bstart, svars, hist>>
    /\ UNCHANGED cvars
    /\ UNCHANGED pvars

\* _, err := conn.Write(data); on an error: log, conn.Close()
BWrite ==
    /\ ~crashed /\ bpc = "write"
    /\ \E ok \in WriteOutcomes(bcur) :
          /\ wire' = IF ok THEN [wire EXCEPT ![bcur] = Append(@, buf)] ELSE wire
          /\ conn' = IF ok THEN conn ELSE [conn EXCEPT ![bcur] = "closed"]
          /\ bpc' = IF ok THEN "next" ELSE "delete"
          /\ bcur' = IF ok THEN 0 ELSE bcur
          /\ bfailed' = IF ok THEN bfailed ELSE bfailed \cup {bcur}
          /\ lateWrite' = IF ok /\ bcur \in removed
                          THEN lateWrite \cup {bcur} ELSE lateWrite
    /\ UNCHANGED <<listener, serial, clients, crashed>>
    /\ UNCHANGED <<avars, hpc, buf, nsrc, bstart, bvisited, svars>>
    /\ UNCHANGED <<srcFailed, readAfterFail, wfailed>>
    /\ UNCHANGED cvars
    /\ UNCHANGED pvars

\* delete(s.clients, conn)
BDelete ==
    /\ ~crashed /\ bpc = "delete"
    /\ \E o \in MapWrite(clients \ {bcur}, OtherWritersB) :
          \/ /\ o[1] = "ok"
             /\ clients' = o[2]
             /\ bpc' = "next"
             /\ bcur' = 0
             /\ wfailed' = wfailed \cup {bcur}
             /\ UNCHANGED crashed
          \/ /\ o[1] = "fatal"
             /\ crashed' = TRUE
             /\ UNCHANGED <<clients, bpc, bcur, wfailed>>
    /\ UNCHANGED <<listener, serial, conn, wire>>
    /\ UNCHANGED <<avars, hpc, buf, nsrc, bstart, bvisited, svars>>
    /\ UNCHANGED <<srcFailed, readAfterFail, bfailed, lateWrite>>
    /\ UNCHANGED cvars
    /\ UNCHANGED pvars

readSerialData ==
    SerialRead \/ SerialReadErr \/ BNext \/ BWrite \/ BDelete

(***************************************************************************)
(* Stop, main.go:166-176                                                   *)
(***************************************************************************)

\* s.listener.Close()
StopListener ==
    /\ ~crashed /\ spc = "idle"
    /\ listener' = "closed"
    /\ spc' = "serial"
    /\ UNCHANGED <<serial, clients, conn, wire, crashed>>
    /\ UNCHANGED <<avars, hpc, bvars, sstart, svisited, hist>>
    /\ UNCHANGED cvars
    /\ UNCHANGED pvars

\* s.serial.Close()
StopSerial ==
    /\ ~crashed /\ spc = "serial"
    /\ serial' = "closed"
    /\ spc' = "range"
    /\ UNCHANGED <<listener, clients, conn, wire, crashed>>
    /\ UNCHANGED <<avars, hpc, bvars, sstart, svisited, hist>>
    /\ UNCHANGED cvars
    /\ UNCHANGED pvars

\* for conn := range s.clients: the iterator is created
StopRange ==
    /\ ~crashed /\ spc = "range"
    /\ sstart' = clients
    /\ svisited' = {}
    /\ spc' = "next"
    /\ UNCHANGED <<shared, avars, hpc, bvars, hist>>
    /\ UNCHANGED cvars
    /\ UNCHANGED pvars

\* for conn := range s.clients: the next key and conn.Close() on it, or the
\* end of the loop
StopNext ==
    /\ ~crashed /\ spc = "next"
    /\ \E o \in MapIterNext(svisited, sstart, OtherWritersS) :
          \/ /\ o[1] = "key"
             /\ svisited' = svisited \cup {o[2]}
             /\ conn' = [conn EXCEPT ![o[2]] = "closed"]
             /\ UNCHANGED <<spc, crashed>>
          \/ /\ o[1] = "done"
             /\ spc' = "done"
             /\ UNCHANGED <<svisited, conn, crashed>>
          \/ /\ o[1] = "fatal"
             /\ crashed' = TRUE
             /\ UNCHANGED <<svisited, spc, conn>>
    /\ UNCHANGED <<listener, serial, clients, wire>>
    /\ UNCHANGED <<avars, hpc, bvars, sstart, hist>>
    /\ UNCHANGED cvars
    /\ UNCHANGED pvars

Stop == StopListener \/ StopSerial \/ StopRange \/ StopNext

Next ==
    \/ readSerialData
    \/ acceptConnections
    \/ \E c \in Conns : handleClient(c)
    \/ Stop

Spec == Init /\ [][Next]_vars

(***************************************************************************)
(* Fairness.  The Go scheduler runs every goroutine that can run.  A       *)
(* goroutine blocked in a call that waits for the outside world            *)
(* (serial.Read on an open port, Accept on an open listener, conn.Read on  *)
(* an open connection) owes no step; Stop is owed nothing until it is      *)
(* called.                                                                 *)
(***************************************************************************)
readSerialDataRuns == readSerialData /\ ~(bpc = "read" /\ serial = "open")
acceptConnectionsRuns == acceptConnections /\ ~(apc = "accept" /\ listener = "open")
handleClientRuns(c) == handleClient(c) /\ ~(hpc[c] = "read" /\ conn[c] = "open")
StopRuns == Stop /\ spc # "idle"

FairSpec ==
    /\ Spec
    /\ WF_vars(readSerialDataRuns)
    /\ WF_vars(acceptConnectionsRuns)
    /\ \A c \in Conns : WF_vars(handleClientRuns(c))
    /\ WF_vars(StopRuns)

(***************************************************************************)
(* NtripClient.Connect, main.go:269-345.  The client is one goroutine and  *)
(* shares nothing with another process but its connection, so a step is    *)
(* one conn.Read together with the statements that follow it up to the     *)
(* next conn.Read.  Bytes are one-character strings.  os.Stdout, once a    *)
(* write to it has failed, stays failed (a closed descriptor, a full       *)
(* disk).                                                                  *)
(***************************************************************************)

\* main.go:299, 313  make([]byte, 1024)
BufSize == 1024

\* Relay bytes a peer sends after its greeting (ClientSpec).
MaxData == 2

\* The bytes of "ICY" (main.go:306) and of the server's header (main.go:147).
ICY == <<"I", "C", "Y">>
Greeting == <<"I", "C", "Y", " ", "2", "0", "0", " ", "O", "K", "\r", "\n">>

\* Relay bytes.
Data == <<"A", "B", "C", "D", "E", "F">>

Min(a, b) == IF a < b THEN a ELSE b

svrvars == <<shared, avars, hpc, bvars, svars, hist>>

\* The request with the Authorization line added when either credential
\* is set.
RequestIfEither(c) ==
    << <<"GET /", c.mountpoint, " HTTP/1.0\r\n">> >>
    \o (IF c.username # "" \/ c.password # ""
        THEN << <<"Authorization: Basic ", c.username, ":", c.password, "\r\n">> >>
        ELSE <<>>)
    \o << <<"User-Agent: NTRIP Client\r\n">>, <<"Connection: close\r\n\r\n">> >>

\* main.go:285-291: the request, line by line; a line is the pieces
\* fmt.Sprintf puts together.
Request(c) ==
    << <<"GET /", c.mountpoint, " HTTP/1.0\r\n">> >>
    \o (IF c.username # "" /\ c.password # ""
        THEN << <<"Authorization: Basic ", c.username, ":", c.password, "\r\n">> >>
        ELSE <<>>)
    \o << <<"User-Agent: NTRIP Client\r\n">>, <<"Connection: close\r\n\r\n">> >>

\* Connect leaves with `return r`; the deferred conn.Close() runs
\* (main.go:275).
Return(k, r) ==
    /\ cpc' = [cpc EXCEPT ![k] = "done"]
    /\ cres' = [cres EXCEPT ![k] = r]
    /\ csock' = [csock EXCEPT ![k] = "closed"]

\* A run-time panic in Connect: the deferred calls run, then the process
\* dies with the panic; Connect returns nothing.
Panic(k) ==
    /\ cpc' = [cpc EXCEPT ![k] = "panic"]
    /\ csock' = [csock EXCEPT ![k] = "closed"]
    /\ UNCHANGED cres

\* conn.Read(b) returns n > 0 bytes: any non-empty prefix of what has
\* arrived, at most len(b).
ReadSizes(k) == 1..Min(Len(inbox[k]), BufSize)

\* conn.Read(b) returns io.EOF: the peer has closed and nothing is left.
ReadEOF(k) == rxEnd[k] = "eof" /\ inbox[k] = <<>>

\* conn.Read(b) returns another error: the connection was reset.
ReadError(k) == rxEnd[k] = "reset"

\* os.Stdout.Write succeeds or fails.
StdoutOutcomes(k) == IF "stdout" \in wrErr[k] THEN {FALSE} ELSE {TRUE, FALSE}

\* The bookkeeping of a conn.Read that returned the first n bytes.
TakeBytes(k, n) ==
    /\ inbox' = [inbox EXCEPT ![k] = SubSeq(@, n + 1, Len(@))]
    /\ got' = [got EXCEPT ![k] = @ \o SubSeq(inbox[k], 1, n)]
    /\ lastRead' = [lastRead EXCEPT ![k] = "data"]

\* main.go:271-296: net.Dial, os.Create(c.outputFile), the request,
\* conn.Write.
ConnectOpen(k) ==
    /\ cpc[k] = "idle"
    /\ \/ /\ cpc' = [cpc EXCEPT ![k] = "done"]
          /\ cres' = [cres EXCEPT ![k] = "failed to connect to server"]
          /\ UNCHANGED <<csock, creq>>
       \/ /\ Return(k, "failed to create output file")
          /\ UNCHANGED creq
       \/ /\ Return(k, "failed to send request")
          /\ UNCHANGED creq
       \/ /\ creq' = [creq EXCEPT ![k] = Request(cfg[k])]
          /\ csock' = [csock EXCEPT ![k] = "open"]
          /\ cpc' = [cpc EXCEPT ![k] = "response"]
          /\ UNCHANGED cres
    /\ UNCHANGED <<cfg, inbox, rxEnd, file, out, got, lastRead, wrErr>>
    /\ UNCHANGED svrvars
    /\ UNCHANGED pvars

\* main.go:299-318: the first conn.Read, the check of response[:3], the
\* second os.Create(c.outputFile).
ReadResponse(k) ==
    /\ cpc[k] = "response"
    /\ \/ \E n \in ReadSizes(k) :
            LET response == SubSeq(inbox[k], 1, n) IN
            /\ TakeBytes(k, n)
            /\ IF Len(response) < 3
               THEN Panic(k)
               ELSE IF SubSeq(response, 1, 3) # ICY
                    THEN Return(k, "invalid server response")
                    ELSE \/ /\ cpc' = [cpc EXCEPT ![k] = "relay"]
                            /\ UNCHANGED <<csock, cres>>
                         \/ Return(k, "failed to create RTCM file")
       \/ /\ ReadEOF(k) \/ ReadError(k)
          /\ lastRead' = [lastRead EXCEPT ![k] = IF ReadEOF(k) THEN "EOF" ELSE "error"]
          /\ Return(k, "failed to read response")
          /\ UNCHANGED <<inbox, got>>
    /\ UNCHANGED <<cfg, creq, rxEnd, file, out, wrErr>>
    /\ UNCHANGED svrvars
    /\ UNCHANGED pvars

\* main.go:321-342: one turn of the relay loop: conn.Read, rtcmFile.Write,
\* os.Stdout.Write (its result is dropped).
Relay(k) ==
    /\ cpc[k] = "relay"
    /\ \/ \E n \in ReadSizes(k), fileOk \in BOOLEAN, stdoutOk \in StdoutOutcomes(k) :
            LET chunk == SubSeq(inbox[k], 1, n) IN
            /\ TakeBytes(k, n)
            /\ IF fileOk
               THEN /\ file' = [file EXCEPT ![k] = @ \o chunk]
                    /\ out' = [out EXCEPT ![k] = IF stdoutOk THEN @ \o chunk ELSE @]
                    /\ wrErr' = [wrErr EXCEPT ![k] = IF stdoutOk THEN @ ELSE @ \cup {"stdout"}]
                    /\ UNCHANGED <<cpc, csock, cres>>
               ELSE /\ stdoutOk
                    /\ wrErr' = [wrErr EXCEPT ![k] = @ \cup {"file"}]
                    /\ Return(k, "error writing RTCM data to file")
                    /\ UNCHANGED <<file, out>>
       \/ /\ ReadEOF(k)
          /\ lastRead' = [lastRead EXCEPT ![k] = "EOF"]
          /\ Return(k, "nil")
          /\ UNCHANGED <<inbox, got, file, out, wrErr>>
       \/ /\ ReadError(k)
          /\ lastRead' = [lastRead EXCEPT ![k] = "error"]
          /\ Return(k, "error reading RTCM data")
          /\ UNCHANGED <<inbox, got, file, out, wrErr>>
    /\ UNCHANGED <<cfg, creq, rxEnd>>
    /\ UNCHANGED svrvars
    /\ UNCHANGED pvars

Connect(k) == ConnectOpen(k) \/ ReadResponse(k) \/ Relay(k)

\* What a peer may answer: the greeting and some relay bytes, something
\* else, or nothing.
Responses ==
    {Greeting \o SubSeq(Data, 1, n) : n \in 0..MaxData}
        \cup {<<"H", "T", "T", "P", "/", "1">>, <<"N", "O">>, <<>>}

\* One client program against an arbitrary peer: its credentials, what
\* the peer sends and how the peer's stream ends are the inputs.
ClientInit ==
    /\ NewNtripServer
    /\ \E u \in {"", "alice"}, p \in {"", "secret"} :
          cfg = [k \in Conns |->
                    IF k = 1 THEN NewNtripClient(u, p, "RTCM3")
                             ELSE NewNtripClient("", "", "RTCM3")]
    /\ cpc = [k \in Conns |-> "idle"]
    /\ csock = [k \in Conns |-> "none"]
    /\ creq = [k \in Conns |-> <<>>]
    /\ \E r \in Responses : inbox = [k \in Conns |-> IF k = 1 THEN r ELSE <<>>]
    /\ \E e \in {"eof", "reset"} : rxEnd = [k \in Conns |-> IF k = 1 THEN e ELSE "open"]
    /\ file = [k \in Conns |-> <<>>]
    /\ out = [k \in Conns |-> <<>>]
    /\ cres = [k \in Conns |-> "none"]
    /\ got = [k \in Conns |-> <<>>]
    /\ lastRead = [k \in Conns |-> "none"]
    /\ wrErr = [k \in Conns |-> {}]
    /\ NoPanel

ClientNext == Connect(1)

ClientSpec == ClientInit /\ [][ClientNext]_vars

(***************************************************************************)
(* The caster and the client programs together: every connection of the    *)
(* caster is the conn of one NtripClient.  The run starts when all clients *)
(* have connected and sent their request, the caster has accepted and      *)
(* registered them and started their handleClient, and the device has      *)
(* delivered nothing yet.  The device delivers its chunks and is then      *)
(* gone; nothing else fails: a write on a connection fails only when the   *)
(* other end has closed it, files and os.Stdout take every write.  Stop is *)
(* not called.  A conn.Read of a client returns all that has arrived.      *)
(* When the caster dies of a fatal error its sockets are closed.           *)
(***************************************************************************)

\* The bytes of what the caster writes.
Bytes(x) ==
    CASE x = header -> Greeting
      [] x = "AB" -> <<"A", "B">>
      [] x = "CD" -> <<"C", "D">>
      [] x = "EF" -> <<"E", "F">>
      [] x = "GH" -> <<"G", "H">>

\* The byte stream of a connection: the caster's writes, concatenated.
RECURSIVE WireBytes(_)
WireBytes(w) ==
    IF w = <<>> THEN <<>> ELSE Bytes(Head(w)) \o WireBytes(Tail(w))

\* Bytes on connection k that have not reached the client yet.
Pending(k) ==
    SubSeq(WireBytes(wire[k]), Len(got[k]) + Len(inbox[k]) + 1,
           Len(WireBytes(wire[k])))

\* The network carries what the caster has written to the client.
Deliver(k) ==
    /\ csock[k] = "open"
    /\ Pending(k) # <<>>
    /\ inbox' = [inbox EXCEPT ![k] = @ \o Pending(k)]
    /\ UNCHANGED <<cfg, cpc, csock, creq, rxEnd, file, out, cres, got, lastRead, wrErr>>
    /\ UNCHANGED svrvars
    /\ UNCHANGED pvars

\* The caster has closed the connection and all its bytes have arrived:
\* the client's next Read returns io.EOF once the inbox is empty.
Fin(k) ==
    /\ conn[k] = "closed"
    /\ rxEnd[k] = "open"
    /\ Pending(k) = <<>>
    /\ rxEnd' = [rxEnd EXCEPT ![k] = "eof"]
    /\ UNCHANGED <<cfg, cpc, csock, creq, inbox, file, out, cres, got, lastRead, wrErr>>
    /\ UNCHANGED svrvars
    /\ UNCHANGED pvars

\* The caster's process has died of a fatal error: the system closes its
\* sockets.
Exit ==
    /\ crashed
    /\ \E c \in Conns : conn[c] = "open"
    /\ conn' = [c \in Conns |-> "closed"]
    /\ UNCHANGED <<listener, serial, clients, wire, crashed>>
    /\ UNCHANGED <<avars, hpc, bvars, svars, hist>>
    /\ UNCHANGED cvars
    /\ UNCHANGED pvars

\* conn.Write of the caster succeeds on a connection that both ends hold
\* open.
WriteLands(c) ==
    (conn[c] = "open" /\ csock[c] = "open") => Len(wire'[c]) > Len(wire[c])

E2EInit ==
    /\ listener = "open"
    /\ serial = "open"
    /\ clients = Conns
    /\ conn = [c \in Conns |-> "open"]
    /\ wire = [c \in Conns |-> <<>>]
    /\ crashed = FALSE
    /\ apc = "accept"
    /\ aconn = 0
    /\ nextConn = MaxConns + 1
    /\ hpc = [c \in Conns |-> "greet"]
    /\ bpc = "read"
    /\ buf = ""
    /\ nsrc = 0
    /\ bcur = 0
    /\ bstart = {}
    /\ bvisited = {}
    /\ spc = "idle"
    /\ sstart = {}
    /\ svisited = {}
    /\ srcFailed = FALSE
    /\ readAfterFail = FALSE
    /\ bfailed = {}
    /\ wfailed = {}
    /\ lateWrite = {}
    /\ cfg = [k \in Conns |-> NewNtripClient("", "", "RTCM3")]
    /\ cpc = [k \in Conns |-> "response"]
    /\ csock = [k \in Conns |-> "open"]
    /\ creq = [k \in Conns |-> Request(cfg[k])]
    /\ inbox = [k \in Conns |-> <<>>]
    /\ rxEnd = [k \in Conns |-> "open"]
    /\ file = [k \in Conns |-> <<>>]
    /\ out = [k \in Conns |-> <<>>]
    /\ cres = [k \in Conns |-> "none"]
    /\ got = [k \in Conns |-> <<>>]
    /\ lastRead = [k \in Conns |-> "none"]
    /\ wrErr = [k \in Conns |-> {}]
    /\ NoPanel

E2ENext ==
    \/ SerialRead /\ (nsrc < MaxChunks => nsrc' = nsrc + 1)
    \/ SerialReadErr
    \/ BNext
    \/ BWrite /\ WriteLands(bcur)
    \/ BDelete
    \/ \E c \in Conns : Greet(c) /\ WriteLands(c)
    \/ \E c \in Conns : ReadErr(c) /\ csock[c] = "closed"
    \/ \E c \in Conns : HDelete(c)
    \/ Exit
    \/ \E k \in Conns : Deliver(k)
    \/ \E k \in Conns : Fin(k)
    \/ \E k \in Conns : /\ ReadResponse(k)
                        /\ inbox'[k] = <<>>
                        /\ cres'[k] # "failed to create RTCM file"
    \/ \E k \in Conns : Relay(k) /\ inbox'[k] = <<>> /\ wrErr'[k] = {}

E2ESpec == E2EInit /\ [][E2ENext]_vars

\* Every goroutine and every client process that can run does; the device
\* delivers its chunks and then fails; the network delivers; a conn.Read
\* with nothing to return waits.
FairE2ESpec ==
    /\ E2ESpec
    /\ WF_vars(readSerialData /\ E2ENext)
    /\ \A c \in Conns : WF_vars(handleClient(c) /\ E2ENext)
    /\ WF_vars(Exit)
    /\ \A k \in Conns : WF_vars(Deliver(k) \/ Fin(k))
    /\ \A k \in Conns : WF_vars(Connect(k) /\ E2ENext)

(***************************************************************************)
(* The control panel, src/web.go: startClient and stopClient.  Each call   *)
(* is a task; handleRoot starts startClient with `go` and calls stopClient *)
(* in the goroutine of the request, and net/http serves requests           *)
(* concurrently.  The exec.Cmd that startClient call t creates is Cmd t.   *)
(* A step is one access to the state the tasks share: the sections under   *)
(* mutex, the accesses to clientCmd outside it, the calls on the Cmd.      *)
(* The time stamp of a message is left out.                                *)
(***************************************************************************)

\* web.go:72  len(pageData.Messages) > 10
MaxMessages == 10

nonpanel == <<shared, avars, hpc, bvars, svars, hist, cvars>>

\* web.go:71-74: pageData.Messages after addMessage(msg).
Appended(msgs, msg) ==
    LET m == Append(msgs, msg)
    IN IF Len(m) > MaxMessages THEN Tail(m) ELSE m

\* Where a task stands at a call of addMessage, the message it passes and
\* where it goes on.  At "already" (web.go:312) and "none" (web.go:377)
\* the call is made between mutex.Lock() and mutex.Unlock().
MessagePcs ==
    {"already", "none", "msgauth", "msgerrpipe", "msgerrstart", "msgstarted",
     "msgconnecting", "msgerrkill", "msgstopped"}

Message(pc) ==
    CASE pc = "already" -> "Client already running"
      [] pc = "none" -> "No client running"
      [] pc = "msgauth" -> "Using authentication with username: "
      [] pc = "msgerrpipe" -> "Error creating pipe: "
      [] pc = "msgerrstart" -> "Error starting client: "
      [] pc = "msgstarted" -> "Client started successfully"
      [] pc = "msgconnecting" -> "Connecting to "
      [] pc = "msgerrkill" -> "Error stopping client: "
      [] pc = "msgstopped" -> "Client stopped successfully"

AfterMessage(pc) ==
    CASE pc = "msgauth" -> "assign"
      [] pc = "msgstarted" -> "msgconnecting"
      [] pc = "msgconnecting" -> "finish"
      [] pc = "msgstopped" -> "clear"
      [] OTHER -> "done"

\* addMessage, web.go:68-75: mutex.Lock() waits until the mutex is
\* unlocked, whoever holds it (sync.Mutex is not reentrant); the message
\* is appended; the deferred mutex.Unlock() runs.
AddMessage(t) ==
    /\ ~panicked
    /\ tpc[t] \in MessagePcs
    /\ mutex = 0
    /\ pageData' = [pageData EXCEPT !.Messages = Appended(@, Message(tpc[t]))]
    /\ tpc' = [tpc EXCEPT ![t] = AfterMessage(tpc[t])]
    /\ mutex' = 0
    /\ UNCHANGED <<clientCmd, clientConfig, cmdStdout, cmdStarted, alive, panicked>>
    /\ UNCHANGED nonpanel

\* web.go:310-329: mutex.Lock(); if clientCmd != nil the task goes to
\* addMessage with the mutex held; otherwise mutex.Unlock() and the
\* arguments are built.
StartCheck(t) ==
    /\ ~panicked
    /\ tpc[t] = "idle"
    /\ mutex = 0
    /\ IF clientCmd # 0
       THEN /\ mutex' = t
            /\ tpc' = [tpc EXCEPT ![t] = "already"]
       ELSE /\ mutex' = 0
            /\ tpc' = [tpc EXCEPT ![t] =
                          IF clientConfig.Username # "" THEN "msgauth" ELSE "assign"]
    /\ UNCHANGED <<clientCmd, clientConfig, pageData, cmdStdout, cmdStarted, alive, panicked>>
    /\ UNCHANGED nonpanel

\* web.go:332  clientCmd = exec.Command("go", args...)
StartAssign(t) ==
    /\ ~panicked
    /\ tpc[t] = "assign"
    /\ clientCmd' = t
    /\ tpc' = [tpc EXCEPT ![t] = "pipe"]
    /\ UNCHANGED <<mutex, clientConfig, pageData, cmdStdout, cmdStarted, alive, panicked>>
    /\ UNCHANGED nonpanel

\* web.go:333-340  clientCmd.Stderr = os.Stderr; clientCmd.StdoutPipe():
\* on whatever clientCmd points to now.  nil: the goroutine panics and the
\* control panel dies.  A Cmd whose Stdout is set, or that was started:
\* StdoutPipe returns an error.
StartPipe(t) ==
    /\ ~panicked
    /\ tpc[t] = "pipe"
    /\ IF clientCmd = 0
       THEN /\ panicked' = TRUE
            /\ UNCHANGED <<tpc, cmdStdout>>
       ELSE IF clientCmd \in cmdStdout \cup cmdStarted
            THEN /\ tpc' = [tpc EXCEPT ![t] = "msgerrpipe"]
                 /\ UNCHANGED <<cmdStdout, panicked>>
            ELSE /\ cmdStdout' = cmdStdout \cup {clientCmd}
                 /\ tpc' = [tpc EXCEPT ![t] = "start"]
                 /\ UNCHANGED panicked
    /\ UNCHANGED <<mutex, clientCmd, clientConfig, pageData, cmdStarted, alive>>
    /\ UNCHANGED nonpanel

\* web.go:343-347  clientCmd.Start(): on whatever clientCmd points to now.
\* It fails on a Cmd that was started already, and may fail otherwise
\* (the `go` tool is missing).
StartStart(t) ==
    /\ ~panicked
    /\ tpc[t] = "start"
    /\ IF clientCmd = 0
       THEN /\ panicked' = TRUE
            /\ UNCHANGED <<tpc, cmdStarted, alive>>
       ELSE \/ /\ tpc' = [tpc EXCEPT ![t] = "msgerrstart"]
               /\ UNCHANGED <<cmdStarted, alive, panicked>>
            \/ /\ clientCmd \notin cmdStarted
               /\ cmdStarted' = cmdStarted \cup {clientCmd}
               /\ alive' = alive \cup {clientCmd}
               /\ tpc' = [tpc EXCEPT ![t] = "msgstarted"]
               /\ UNCHANGED panicked
    /\ UNCHANGED <<mutex, clientCmd, clientConfig, pageData, cmdStdout>>
    /\ UNCHANGED nonpanel

\* web.go:368-371: mutex.Lock(); pageData...; mutex.Unlock()
StartFinish(t) ==
    /\ ~panicked
    /\ tpc[t] = "finish"
    /\ mutex = 0
    /\ pageData' = [pageData EXCEPT !.Status = "Client started", !.IsRunning = TRUE]
    /\ tpc' = [tpc EXCEPT ![t] = "done"]
    /\ UNCHANGED <<mutex, clientCmd, clientConfig, cmdStdout, cmdStarted, alive, panicked>>
    /\ UNCHANGED nonpanel

startClient(t) ==
    \/ StartCheck(t)
    \/ StartAssign(t)
    \/ StartPipe(t)
    \/ StartStart(t)
    \/ StartFinish(t)
    \/ AddMessage(t)

\* web.go:375-381: mutex.Lock(); if clientCmd == nil the task goes to
\* addMessage with the mutex held; otherwise mutex.Unlock().
StopCheck(u) ==
    /\ ~panicked
    /\ tpc[u] = "idle"
    /\ mutex = 0
    /\ IF clientCmd = 0
       THEN /\ mutex' = u
            /\ tpc' = [tpc EXCEPT ![u] = "none"]
       ELSE /\ mutex' = 0
            /\ tpc' = [tpc EXCEPT ![u] = "kill"]
    /\ UNCHANGED <<clientCmd, clientConfig, pageData, cmdStdout, cmdStarted, alive, panicked>>
    /\ UNCHANGED nonpanel

\* web.go:383-387  clientCmd.Process.Kill(): on whatever clientCmd points
\* to now.  clientCmd nil, or a Cmd that was not started (Process is nil):
\* the call panics; net/http recovers the panic of a handler and the
\* request ends.
StopKill(u) ==
    /\ ~panicked
    /\ tpc[u] = "kill"
    /\ IF clientCmd = 0 \/ clientCmd \notin cmdStarted
       THEN /\ tpc' = [tpc EXCEPT ![u] = "panic"]
            /\ UNCHANGED alive
       ELSE /\ alive' = alive \ {clientCmd}
            /\ tpc' = [tpc EXCEPT ![u] = "msgstopped"]
    /\ UNCHANGED <<mutex, clientCmd, clientConfig, pageData, cmdStdout, cmdStarted, panicked>>
    /\ UNCHANGED nonpanel

\* web.go:391-395: mutex.Lock(); clientCmd = nil; pageData...;
\* mutex.Unlock()
StopClear(u) ==
    /\ ~panicked
    /\ tpc[u] = "clear"
    /\ mutex = 0
    /\ clientCmd' = 0
    /\ pageData' = [pageData EXCEPT !.Status = "Client stopped", !.IsRunning = FALSE]
    /\ tpc' = [tpc EXCEPT ![u] = "done"]
    /\ UNCHANGED <<mutex, clientConfig, cmdStdout, cmdStarted, alive, panicked>>
    /\ UNCHANGED nonpanel

stopClient(u) ==
    \/ StopCheck(u)
    \/ StopKill(u)
    \/ StopClear(u)
    \/ AddMessage(u)

\* A subprocess ends by itself (its Connect has returned).
ProcessExits ==
    /\ \E c \in alive : alive' = alive \ {c}
    /\ UNCHANGED <<mutex, clientCmd, clientConfig, pageData, tpc, cmdStdout, cmdStarted, panicked>>
    /\ UNCHANGED nonpanel

PanelInit ==
    /\ NewNtripServer
    /\ NoClient
    /\ \E username \in {"", "alice"} : PanelStarted(username)

PanelNext ==
    \/ \E t \in Starters : startClient(t)
    \/ \E u \in Stoppers : stopClient(u)
    \/ ProcessExits

PanelSpec == PanelInit /\ [][PanelNext]_vars

(***************************************************************************)
(* Properties.                                                             *)
(***************************************************************************)

\* The greeting is on the socket of c.
Greeted(c) == \E i \in 1..Len(wire[c]) : wire[c][i] = header

\* Chunk k of the device is on the socket of c.
Received(c, k) == \E i \in 1..Len(wire[c]) : wire[c][i] = Payload[k]

\* The relay chunks on the socket of c, as positions in the device's stream.
RelayIdx(c) ==
    LET r == SelectSeq(wire[c], LAMBDA x : x # header)
    IN [i \in 1..Len(r) |-> CHOOSE k \in 1..Len(Payload) : Payload[k] = r[i]]

\* readSerialData is inside `for conn := range s.clients`; so is Stop.
InRangeB == bpc \in {"next", "write", "delete"}
InRangeS == spc = "next"

\* The broadcast round of chunk nsrc has run to the end of its range loop.
RoundEnded == nsrc > 0 /\ bpc \in {"read", "readerr"}

\* The round of chunk nsrc will write nothing more: its loop has ended, or
\* the process died inside it.
RoundOver == RoundEnded \/ (crashed /\ InRangeB)

\* C1: registry accesses are serialized: no goroutine writes the map
\* (insert in acceptConnections, delete in handleClient or readSerialData)
\* while another goroutine is inside a range loop over it.
C1_RegistrySerialized ==
    [][ /\ (apc = "register" /\ apc' = "accept") => ~InRangeB /\ ~InRangeS
        /\ (\E c \in Conns : hpc[c] = "delete" /\ hpc'[c] = "done")
              => ~InRangeB /\ ~InRangeS
        /\ (bpc = "delete" /\ bpc' = "next") => ~InRangeS ]_vars

\* C2: on every connection the greeting is the first thing written: a
\* socket that carries anything carries the greeting first.
C2_GreetingFirst ==
    \A c \in Conns : wire[c] # <<>> => wire[c][1] = header

\* C3: a connection is in the registry iff its greeting was written and it
\* has neither failed a relay write nor been removed.
C3_RegistryIffGreeted ==
    \A c \in Conns :
        c \in clients <=> (Greeted(c) /\ c \notin bfailed /\ c \notin removed)

\* C4: every subscriber registered before a chunk's round and still
\* registered has the chunk on its socket once the round is over, and the
\* chunks on a socket are in source order with no repeats.
C4_DeliveredInOrder ==
    \A c \in Conns :
        /\ \A i, j \in 1..Len(RelayIdx(c)) : i < j => RelayIdx(c)[i] < RelayIdx(c)[j]
        /\ (RoundOver /\ c \in bstart /\ c \in clients) => Received(c, nsrc)

\* C5: a failed write, and the removal that follows it, does not abort the
\* round or make it skip another subscriber: once a round with a failed
\* write is over (its loop ended, or the process died in the delete that
\* followed the failure), every other subscriber registered for it, and
\* whose connection is open, has the chunk.
C5_FailureIsolated ==
    (nsrc > 0 /\ bfailed # {} /\ (RoundEnded \/ (crashed /\ bpc = "delete")))
        => \A b \in (bstart \cap clients) \ bfailed :
              conn[b] = "open" => Received(b, nsrc)

\* C6: no chunk reaches a subscriber whose removal has completed, and a
\* round that started after a subscriber's insertion completed calls Write
\* on it if it is still registered once the round is over.
C6_NoStaleNoOmission ==
    /\ lateWrite = {}
    /\ RoundOver => (bstart \cap clients) \subseteq bvisited

\* C7: after s.serial.Read has returned an error it is not called again.
C7_SourceErrorFatal == ~readAfterFail

\* C8: when Stop has returned, the listener and the serial port are closed
\* and no accepted connection is open.
C8_StopClosesAll ==
    spc = "done" =>
        /\ listener = "closed"
        /\ serial = "closed"
        /\ \A c \in Conns : conn[c] # "open"

\* C9: once Stop has returned, every background goroutine eventually
\* returns (or the process is gone).
C9_TasksTerminate ==
    (spc = "done") ~>
        \/ crashed
        \/ /\ bpc = "done"
           /\ apc = "done"
           /\ \A c \in Conns : hpc[c] \in {"none", "done"}

\* C10: a subscriber whose relay write failed is closed and out of the
\* registry once readSerialData is through with the failure (its delete
\* returned, or the process died in it), and takes no chunk afterwards.
C10_FailedWriteRemoved ==
    \A c \in Conns :
        (c \in wfailed \/ (crashed /\ bpc = "delete" /\ bcur = c)) =>
            /\ conn[c] = "closed"
            /\ c \notin clients
            /\ c \notin lateWrite

\* handleClient(c) has called conn.Read (main.go:156), the only place where
\* the server takes bytes, the client's request among them, off a
\* connection: it is in its read loop, or left it on a read error.
ReadIssued(c) ==
    \/ hpc[c] = "read"
    \/ hpc[c] \in {"delete", "done"} /\ Greeted(c)

\* C11: when the read of a greeted connection has failed, the deferred
\* function of its handleClient closes it and takes it, and nothing else,
\* out of the registry: the step in which the delete returns leaves the
\* registry without the connection and otherwise as it was.
C11_DisconnectRemovesOnlyIt ==
    [][ \A c \in Conns :
          (Greeted(c) /\ hpc[c] = "delete" /\ hpc'[c] = "done")
              => /\ conn'[c] = "closed"
                 /\ clients' = clients \ {c} ]_vars

\* C12: the greeting goes on a connection only after the server has read
\* from it: in the step that writes the greeting, the request has been
\* read.
C12_RequestReadBeforeGreeting ==
    [][ \A c \in Conns :
          (~Greeted(c) /\ Greeted(c)') => ReadIssued(c) ]_vars

\* C13: when handleClient has returned after a failed greeting write, the
\* connection is closed and is not in the registry.
C13_FailedGreetingLeavesNothing ==
    \A c \in Conns :
        (hpc[c] = "done" /\ ~Greeted(c)) =>
            /\ conn[c] = "closed"
            /\ c \notin clients

\* s begins with p.
StartsWith(s, p) == Len(s) >= Len(p) /\ SubSeq(s, 1, Len(p)) = p

\* What follows the greeting line in a stream that begins with it.
AfterGreeting(s) == SubSeq(s, Len(Greeting) + 1, Len(s))

\* Connect has returned the error r.
IsError(r) == r \notin {"none", "nil"}

\* The request carries an Authorization line.
HasAuthorization(req) ==
    \E i \in 1..Len(req) : req[i][1] = "Authorization: Basic "

\* The handshake of client k has succeeded: Connect is in its relay loop
\* or has left it.
Relaying(k) ==
    \/ cpc[k] = "relay"
    \/ cres[k] \in {"nil", "error reading RTCM data",
                    "error writing RTCM data to file"}

\* C14: when the response does not begin with "ICY", Connect has returned
\* an error, its connection is closed, it is not relaying, and nothing is
\* in the output file or on os.Stdout.  (Until the relay loop is entered,
\* got[k] is the response; after, it begins with "ICY".)
C14_BadResponseRejected ==
    \A k \in Conns :
        (got[k] # <<>> /\ ~StartsWith(got[k], ICY)) =>
            /\ cpc[k] = "done"
            /\ IsError(cres[k])
            /\ csock[k] = "closed"
            /\ file[k] = <<>>
            /\ out[k] = <<>>

\* C15: the request Connect has written has an Authorization line iff
\* username and password are both non-empty.
C15_AuthorizationIffBoth ==
    \A k \in Conns :
        creq[k] # <<>> =>
            (HasAuthorization(creq[k])
                <=> (cfg[k].username # "" /\ cfg[k].password # ""))

C15_Witness ==
    /\ creq[1] # <<>>
    /\ cfg[1].username = "alice" /\ cfg[1].password = "secret"
    /\ HasAuthorization(creq[1])

\* C16: while Connect relays and no write to the file has failed, the
\* file holds every byte read from the connection after the greeting
\* line.
C16_AllRelayBytesInFile ==
    \A k \in Conns :
        (cpc[k] = "relay" /\ "file" \notin wrErr[k]) =>
            file[k] = AfterGreeting(got[k])

\* C17: the output file and os.Stdout hold the same byte sequence.
C17_FileEqualsStdout ==
    \A k \in Conns : file[k] = out[k]

\* C18: in a relaying session, a read that returned EOF has ended Connect
\* with nil; a read that returned another error, or a failed write to the
\* file or to os.Stdout, has ended Connect with an error.
C18_RelayTermination ==
    \A k \in Conns :
        Relaying(k) =>
            /\ lastRead[k] = "EOF" => (cpc[k] = "done" /\ cres[k] = "nil")
            /\ lastRead[k] = "error" => (cpc[k] = "done" /\ IsError(cres[k]))
            /\ wrErr[k] # {} => (cpc[k] = "done" /\ IsError(cres[k]))

\* C20: when the first read has returned one or two bytes, Connect has
\* returned an error (it has not panicked) and nothing is in the output
\* file or on os.Stdout.
C20_ShortResponseIsError ==
    \A k \in Conns :
        (got[k] # <<>> /\ Len(got[k]) < 3) =>
            /\ cpc[k] = "done"
            /\ IsError(cres[k])
            /\ file[k] = <<>>
            /\ out[k] = <<>>

\* C19: with the device delivering "AB", "CD" and then gone, and all
\* clients connected before the first broadcast, every client session
\* eventually has terminated with exactly "ABCD" in its output file.
C19_EndToEnd ==
    <>(\A k \in Conns :
          /\ cpc[k] = "done"
          /\ file[k] = <<"A", "B", "C", "D">>)

\* C21: no call of startClient or stopClient waits for the mutex it
\* holds: a task at a call of addMessage, whose mutex.Lock() it must pass
\* to return, is not the holder of the mutex.
C21_NoSelfDeadlock ==
    \A t \in Tasks : tpc[t] \in MessagePcs => mutex # t

\* C22: at most one subprocess runs, and while one runs clientCmd points
\* to it.
C22_SingleSubprocess ==
    /\ Cardinality(alive) <= 1
    /\ alive # {} => clientCmd \in alive

====
